---- MODULE Spec2Model ----
(***************************************************************************)
(* A model of hwtracer's build script (build.rs).  A run of the script is  *)
(* one operating-system process; runs share the output directory on the    *)
(* file system, which outlives them.  Each action below is one statement   *)
(* (or one straight-line group of statements) of build.rs; every `unwrap`  *)
(* and `panic!` of the script is a step to "failed".                       *)
(***************************************************************************)
EXTENDS Integers, Sequences, FiniteSets, TLC

\* ------------------------------------------------------------------ values

\* The processes that may run the script, and the OUT_DIR values cargo may
\* hand them ("unset": the environment variable is missing).
Procs == {"p1", "p2"}
OutDirs == {"out1", "out2"}
Unset == "unset"

FEATURE_CHECKS_PATH == "feature_checks"
C_DEPS_DIR == "c_deps"
C_DEPS_MAKEFILE == "c_deps.mk"

\* The directory cargo starts a build script in (the package root).
CrateDir == <<"crate">>
NoPath == <<>>

TargetOses == {"linux", "macos"}
TargetArches == {"x86_64", "aarch64"}

BackendSources ==
  <<"src/backends/perf_pt/collect.c",
    "src/backends/perf_pt/decode.c",
    "src/backends/perf_pt/util.c">>

RerunExceptions ==
  <<"README.md", "deny.toml", "LICENSE-*", "COPYRIGHT", "bors.toml", ".buildbot.sh">>

\* ------------------------------------------------------- 32-bit registers

\* A u32 is the set of the positions of its bits that are 1, bit 0 being the
\* least significant one (TLC's integers are too narrow for 2^32 - 1).
RegWidth == 32
PtLeaf == 7
PtSubleaf == 0
PtBit == 25

BitPositions == 0 .. (RegWidth - 1)
Zero == {}
One == {0}
AllOnes == BitPositions

\* u32 `x << n`: every bit moves up n places, those leaving the word are lost.
ShiftLeft(x, n) == {b + n : b \in x} \cap BitPositions

\* u32 `a & b`.
BitAnd(a, b) == a \cap b

\* The values of EBX the model feeds the query: no bit, every bit, and for
\* each position b the word with bit b alone, the word with every bit but b,
\* and the word with bit b and the PT bit.
EbxValues ==
  {Zero, AllOnes}
    \cup {{b} : b \in BitPositions}
    \cup {AllOnes \ {b} : b \in BitPositions}
    \cup {{b, PtBit} : b \in BitPositions}
OtherRegValues == {Zero, {PtBit}, AllOnes}
CpuidResults ==
  [eax : {Zero, AllOnes}, ebx : EbxValues, ecx : OtherRegValues, edx : OtherRegValues]
NoRegs == [eax |-> Zero, ebx |-> Zero, ecx |-> Zero, edx |-> Zero]

\* ------------------------------------------------------------------ state

\* fs[o]: what OUT_DIR o holds: the c_deps directory and, in it, the symbolic
\*        link to the make file.
\* proc[p]: the process running the script: its place in it (pc), its inputs,
\*        its working directory, the locals that are live, the cc::Build under
\*        construction, and everything it has done to the outside so far (log).
VARIABLES fs, proc

vars == <<fs, proc>>

Ev(kind, key, val) == [kind |-> kind, key |-> key, val |-> val]

IdleProc ==
  [pc |-> "idle",
   target |-> [os |-> "linux", arch |-> "x86_64"],
   outDir |-> Unset,
   cwd |-> CrateDir,
   c_deps_dir |-> NoPath,
   prev_dir |-> NoPath,
   res |-> "none",
   cpuid |-> NoRegs,
   supports_pt |-> FALSE,
   files |-> <<>>,
   includes |-> <<>>,
   flags |-> <<>>,
   objects |-> <<>>,
   log |-> <<>>]

Init ==
  /\ fs = [o \in OutDirs |-> [dir |-> FALSE, link |-> FALSE]]
  /\ proc = [p \in Procs |-> IdleProc]

Goto(s, pc) == [s EXCEPT !.pc = pc]
Log(s, e) == [s EXCEPT !.log = Append(@, e)]
\* A panic (an `unwrap` of an Err, a `panic!`): the message goes to the
\* standard error, the stack unwinds and the process exits with a failure.
Panic(s, what) == Goto(Log(s, Ev("panic", what, <<>>)), "failed")
Set(p, s) == proc' = [proc EXCEPT ![p] = s]

\* ------------------------------------------------------------------ paths

\* PathBuf::from and PathBuf::push, a path being its components.
PathFrom(o) == <<o>>
Push(path, component) == Append(path, component)

\* Path::exists for the workspace directory OUT_DIR/c_deps.
PathExists(f, path) ==
  /\ Len(path) = 2
  /\ path[1] \in OutDirs
  /\ path[2] = C_DEPS_DIR
  /\ f[path[1]].dir

\* Whether the make file can be read from directory `dir`: only the workspace
\* holds one, the symbolic link created by make_c_deps_dir.
MakefileIn(f, dir) == PathExists(f, dir) /\ f[dir[1]].link

\* ------------------------------------------------------ the pure functions

\* Result::is_ok.
IsOk(r) == r = "Ok"

\* A probe that reports the feature whatever the compiler said.
feature_check_AlwaysTrue(filename, output_file, compiled) == TRUE

\* feature_check: true iff cc's try_compile of the check file returned Ok.
feature_check(filename, output_file, compiled) == IsOk(compiled)

\* The test of the wrong register: ECX in place of EBX.
cpu_supports_pt_Ecx(res) == BitAnd(res.ecx, ShiftLeft(One, PtBit)) # Zero

\* cpu_supports_pt: bit 25 of EBX of CPUID leaf 7, subleaf 0.
cpu_supports_pt(res) == BitAnd(res.ebx, ShiftLeft(One, PtBit)) # Zero

\* A gate that lets a target through on either half of the pair.
PlatformGate_EitherHalf(target) == target.os = "linux" \/ target.arch = "x86_64"

\* cfg!(all(target_os = "linux", target_arch = "x86_64")).
PlatformGate(target) == target.os = "linux" /\ target.arch = "x86_64"

\* ---------------------------------------------------------------- actions

\* Cargo starts the script: the target it was compiled for, the OUT_DIR it is
\* given, the package root as working directory; `cc::Build::new()`.
StartWith(p, oses, arches, outs) ==
  /\ proc[p].pc = "idle"
  /\ \E os \in oses, arch \in arches, o \in outs :
       Set(p, [IdleProc EXCEPT !.pc = "mk_out_dir",
                               !.target = [os |-> os, arch |-> arch],
                               !.outDir = o])
  /\ UNCHANGED fs

Start(p) == StartWith(p, TargetOses, TargetArches, OutDirs \cup {Unset})

\* make_c_deps_dir: `env::var("OUT_DIR").unwrap()` and the path OUT_DIR/c_deps.
MkOutDir(p) ==
  LET s == proc[p] IN
  /\ s.pc = "mk_out_dir"
  /\ IF s.outDir = Unset
     THEN Set(p, Panic(s, "unwrap OUT_DIR"))
     ELSE Set(p, Goto([s EXCEPT !.c_deps_dir = Push(PathFrom(s.outDir), C_DEPS_DIR)],
                      "mk_exists"))
  /\ UNCHANGED fs

\* make_c_deps_dir testing for the link where it should test for the
\* directory.
MkExists_ChecksLink(p) ==
  LET s == proc[p] IN
  /\ s.pc = "mk_exists"
  /\ IF MakefileIn(fs, s.c_deps_dir)
     THEN Set(p, Goto(s, "gate"))
     ELSE Set(p, Goto(s, "mk_create_dir"))
  /\ UNCHANGED fs

\* make_c_deps_dir without its existence check.
MkExists_AlwaysCreate(p) ==
  LET s == proc[p] IN
  /\ s.pc = "mk_exists"
  /\ Set(p, Goto(s, "mk_create_dir"))
  /\ UNCHANGED fs

\* make_c_deps_dir: `if !c_deps_dir.exists()`; when it exists the function
\* returns the path at once.
MkExists(p) ==
  LET s == proc[p] IN
  /\ s.pc = "mk_exists"
  /\ IF PathExists(fs, s.c_deps_dir)
     THEN Set(p, Goto(s, "gate"))
     ELSE Set(p, Goto(s, "mk_create_dir"))
  /\ UNCHANGED fs

\* make_c_deps_dir: `fs::create_dir(&c_deps_dir).unwrap()`.  It fails when the
\* directory is there already, and may fail for the file system's own reasons.
MkCreateDir(p) ==
  LET s == proc[p] IN
  /\ s.pc = "mk_create_dir"
  /\ \/ /\ ~PathExists(fs, s.c_deps_dir)
        /\ fs' = [fs EXCEPT ![s.outDir].dir = TRUE]
        /\ Set(p, Goto(Log(s, Ev("fs", "create_dir", s.c_deps_dir)), "mk_symlink"))
     \/ /\ Set(p, Panic(s, "unwrap create_dir"))
        /\ UNCHANGED fs

\* make_c_deps_dir linking the make file at a place other than the workspace.
MkSymlink_WrongDest(p) ==
  LET s == proc[p]
      dest == Push(PathFrom(s.outDir), C_DEPS_MAKEFILE)
      src == Push(s.cwd, C_DEPS_MAKEFILE)
  IN
  /\ s.pc = "mk_symlink"
  /\ \/ /\ PathExists(fs, s.c_deps_dir)
        /\ Set(p, Goto(Log(s, Ev("fs", "symlink", src \o dest)), "gate"))
        /\ UNCHANGED fs
     \/ /\ Set(p, Panic(s, "unwrap symlink"))
        /\ UNCHANGED fs

\* make_c_deps_dir dropping the Result of symlink in place of unwrapping it.
MkSymlink_ErrorIgnored(p) ==
  LET s == proc[p]
      dest == Push(s.c_deps_dir, C_DEPS_MAKEFILE)
      src == Push(s.cwd, C_DEPS_MAKEFILE)
  IN
  /\ s.pc = "mk_symlink"
  /\ \/ /\ PathExists(fs, s.c_deps_dir)
        /\ ~fs[s.outDir].link
        /\ fs' = [fs EXCEPT ![s.outDir].link = TRUE]
        /\ Set(p, Goto(Log(s, Ev("fs", "symlink", src \o dest)), "gate"))
     \/ /\ Set(p, Goto(s, "gate"))
        /\ UNCHANGED fs

\* make_c_deps_dir: dest = c_deps_dir/c_deps.mk, src = current_dir()/c_deps.mk,
\* `unix_fs::symlink(src, dest).unwrap()`, and the return of the path.
MkSymlink(p) ==
  LET s == proc[p]
      dest == Push(s.c_deps_dir, C_DEPS_MAKEFILE)
      src == Push(s.cwd, C_DEPS_MAKEFILE)
  IN
  /\ s.pc = "mk_symlink"
  /\ \/ /\ PathExists(fs, s.c_deps_dir)
        /\ ~fs[s.outDir].link
        /\ fs' = [fs EXCEPT ![s.outDir].link = TRUE]
        /\ Set(p, Goto(Log(s, Ev("fs", "symlink", src \o dest)), "gate"))
     \/ /\ Set(p, Panic(s, "unwrap symlink"))
        /\ UNCHANGED fs

\* A gate whose else branch leaves main past the final compile.
Gate_SkipsCompile(p) ==
  LET s == proc[p] IN
  /\ s.pc = "gate"
  /\ IF PlatformGate(s.target)
     THEN Set(p, Goto(s, "probe"))
     ELSE Set(p, Goto(s, "rerun"))
  /\ UNCHANGED fs

\* main: the compile-time platform gate, the left operand of `&&`.
Gate(p) ==
  LET s == proc[p] IN
  /\ s.pc = "gate"
  /\ IF PlatformGate(s.target)
     THEN Set(p, Goto(s, "probe"))
     ELSE Set(p, Goto(s, "final_include"))
  /\ UNCHANGED fs

\* main: `feature_check("check_perf_pt.c", "check_perf_pt")`, the right operand
\* of `&&`: cc compiles feature_checks/check_perf_pt.c and reports Ok or Err.
FeatureCheck(p) ==
  LET s == proc[p] IN
  /\ s.pc = "probe"
  /\ \E compiled \in {"Ok", "Err"} :
       LET t == Log(s, Ev("cc", "try_compile",
                          <<FEATURE_CHECKS_PATH, "check_perf_pt.c", compiled>>))
       IN IF feature_check("check_perf_pt.c", "check_perf_pt", compiled)
          THEN Set(p, Goto(t, "add_files"))
          ELSE Set(p, Goto(t, "final_include"))
  /\ UNCHANGED fs

\* The backend step printing its link-search line before the library is built.
AddBackendFiles_EmitsEarly(p) ==
  LET s == proc[p] IN
  /\ s.pc = "add_files"
  /\ Set(p, Goto([Log(s, Ev("stdout", "cargo:rustc-link-search",
                            s.c_deps_dir \o <<"inst", "lib">>))
                    EXCEPT !.files = @ \o BackendSources],
                 "bl_enter"))
  /\ UNCHANGED fs

\* main: the three `c_build.file(..)` of the perf_pt backend.
AddBackendFiles(p) ==
  LET s == proc[p] IN
  /\ s.pc = "add_files"
  /\ Set(p, Goto([s EXCEPT !.files = @ \o BackendSources], "bl_enter"))
  /\ UNCHANGED fs

\* build_libxdc announcing the backend to cargo before it has built anything.
BlEnter_PrintsCfg(p) ==
  LET s == proc[p]
      t == Log(Log(s, Ev("stderr", "Building libxdc...", <<>>)),
               Ev("stdout", "cargo:rustc-cfg", <<"perf_pt">>))
  IN
  /\ s.pc = "bl_enter"
  /\ \/ Set(p, Goto([t EXCEPT !.prev_dir = s.cwd], "bl_chdir"))
     \/ Set(p, Panic(t, "unwrap current_dir"))
  /\ UNCHANGED fs

\* build_libxdc: the banner and `prev_dir = env::current_dir().unwrap()`.
BlEnter(p) ==
  LET s == proc[p]
      t == Log(s, Ev("stderr", "Building libxdc...", <<>>))
  IN
  /\ s.pc = "bl_enter"
  /\ \/ Set(p, Goto([t EXCEPT !.prev_dir = s.cwd], "bl_chdir"))
     \/ Set(p, Panic(t, "unwrap current_dir"))
  /\ UNCHANGED fs

\* build_libxdc: `env::set_current_dir(&c_deps_dir).unwrap()`.
BlChdir(p) ==
  LET s == proc[p] IN
  /\ s.pc = "bl_chdir"
  /\ \/ /\ PathExists(fs, s.c_deps_dir)
        /\ Set(p, Goto([s EXCEPT !.cwd = s.c_deps_dir], "bl_make"))
     \/ Set(p, Panic(s, "unwrap set_current_dir"))
  /\ UNCHANGED fs

\* A spawn failure taken for a run of make that failed.
BlMake_SpawnFailureAsStatus(p) ==
  LET s == proc[p] IN
  /\ s.pc = "bl_make"
  /\ \/ Set(p, Goto([Log(s, Ev("make", "spawn_failed", s.cwd)) EXCEPT !.res = "nonzero"],
                    "bl_status"))
     \/ /\ MakefileIn(fs, s.cwd)
        /\ Set(p, Goto([Log(s, Ev("make", "success", s.cwd)) EXCEPT !.res = "success"],
                       "bl_status"))
     \/ Set(p, Goto([Log(s, Ev("make", "nonzero", s.cwd)) EXCEPT !.res = "nonzero"],
                    "bl_status"))
  /\ UNCHANGED fs

\* build_libxdc: `Command::new("make").arg("-f").arg("c_deps.mk").output()`.
\* Either make cannot be spawned, and the closure of unwrap_or_else panics, or
\* it runs to its end with a status; it can succeed only if it finds the make
\* file in the working directory.
BlMake(p) ==
  LET s == proc[p] IN
  /\ s.pc = "bl_make"
  /\ \/ Set(p, Panic(Log(s, Ev("make", "spawn_failed", s.cwd)),
                     "Fatal error when building libxdc"))
     \/ /\ MakefileIn(fs, s.cwd)
        /\ Set(p, Goto([Log(s, Ev("make", "success", s.cwd)) EXCEPT !.res = "success"],
                       "bl_status"))
     \/ Set(p, Goto([Log(s, Ev("make", "nonzero", s.cwd)) EXCEPT !.res = "nonzero"],
                    "bl_status"))
  /\ UNCHANGED fs

\* build_libxdc running make again after a failed run of it.
BlStatus_Retry(p) ==
  LET s == proc[p] IN
  /\ s.pc = "bl_status"
  /\ IF s.res # "success"
     THEN Set(p, Goto([s EXCEPT !.res = "none"], "bl_make"))
     ELSE Set(p, Goto(s, "bl_restore"))
  /\ UNCHANGED fs

\* build_libxdc without the test of make's status.
BlStatus_Unchecked(p) ==
  LET s == proc[p] IN
  /\ s.pc = "bl_status"
  /\ Set(p, Goto(s, "bl_restore"))
  /\ UNCHANGED fs

\* build_libxdc: `if !res.status.success() { eprintln!.. ; panic!() }`.
BlStatus(p) ==
  LET s == proc[p]
      echoed == [s EXCEPT !.log = @ \o
                   << Ev("stderr", "libxdc build failed", <<">>> stdout">>),
                      Ev("stderr", "stdout: ", <<"res.stdout">>),
                      Ev("stderr", "", <<">>> stderr">>),
                      Ev("stderr", "stderr: ", <<"res.stderr">>) >>]
  IN
  /\ s.pc = "bl_status"
  /\ IF s.res # "success"
     THEN Set(p, Panic(echoed, "explicit panic"))
     ELSE Set(p, Goto(s, "bl_restore"))
  /\ UNCHANGED fs

\* build_libxdc: `env::set_current_dir(&prev_dir).unwrap()` and the return.
BlRestore(p) ==
  LET s == proc[p] IN
  /\ s.pc = "bl_restore"
  /\ \/ Set(p, Goto([s EXCEPT !.cwd = s.prev_dir, !.prev_dir = NoPath, !.res = "none"],
                    "add_include"))
     \/ Set(p, Panic(s, "unwrap set_current_dir"))
  /\ UNCHANGED fs

\* main: the include path and the -L flag of the built library.
AddIncludeFlag(p) ==
  LET s == proc[p] IN
  /\ s.pc = "add_include"
  /\ Set(p, Goto([s EXCEPT
                    !.includes = Append(@, s.c_deps_dir \o <<"inst", "include">>),
                    !.flags = Append(@, <<"-L">> \o s.c_deps_dir \o <<"inst", "lib">>)],
                 "emit_link_search"))
  /\ UNCHANGED fs

\* The link-search line followed at once by the CPUID query, the perf_pt
\* line left out.
EmitLinkSearch_ThenCpuid(p) ==
  LET s == proc[p] IN
  /\ s.pc = "emit_link_search"
  /\ Set(p, Goto(Log(s, Ev("stdout", "cargo:rustc-link-search",
                           s.c_deps_dir \o <<"inst", "lib">>)),
                 "cpuid"))
  /\ UNCHANGED fs

\* main: `println!("cargo:rustc-link-search={}/inst/lib", c_deps_dir_s)`.
EmitLinkSearch(p) ==
  LET s == proc[p] IN
  /\ s.pc = "emit_link_search"
  /\ Set(p, Goto(Log(s, Ev("stdout", "cargo:rustc-link-search",
                           s.c_deps_dir \o <<"inst", "lib">>)),
                 "emit_perf_pt"))
  /\ UNCHANGED fs

\* main: `println!("cargo:rustc-cfg=perf_pt")`.
EmitCfgPerfPt(p) ==
  LET s == proc[p] IN
  /\ s.pc = "emit_perf_pt"
  /\ Set(p, Goto(Log(s, Ev("stdout", "cargo:rustc-cfg", <<"perf_pt">>)), "cpuid"))
  /\ UNCHANGED fs

\* main: the call `cpu_supports_pt()`: `__cpuid_count(0x7, 0x0)` answers with
\* four registers, whatever the processor holds, and the bit is tested.
CpuSupportsPtOn(p, results) ==
  LET s == proc[p] IN
  /\ s.pc = "cpuid"
  /\ \E res \in results :
       Set(p, Goto([Log(s, Ev("cpuid", "cpuid_count", <<"0x7", "0x0">>))
                      EXCEPT !.cpuid = res, !.supports_pt = cpu_supports_pt(res)],
                   "pt_branch"))
  /\ UNCHANGED fs

CpuSupportsPt(p) == CpuSupportsPtOn(p, CpuidResults)

\* A branch that, without Processor Trace, also leaves out the link-lib lines.
PtBranch_GuardsLinkLibs(p) ==
  LET s == proc[p]
      t == [s EXCEPT !.cpuid = NoRegs]
  IN
  /\ s.pc = "pt_branch"
  /\ IF s.supports_pt
     THEN Set(p, Goto(Log(t, Ev("stdout", "cargo:rustc-cfg", <<"perf_pt_test">>)),
                      "emit_xdc"))
     ELSE Set(p, Goto(t, "final_include"))
  /\ UNCHANGED fs

\* main: `if cpu_supports_pt() { println!("cargo:rustc-cfg=perf_pt_test") }`.
PtBranch(p) ==
  LET s == proc[p]
      t == [s EXCEPT !.cpuid = NoRegs]
  IN
  /\ s.pc = "pt_branch"
  /\ IF s.supports_pt
     THEN Set(p, Goto(Log(t, Ev("stdout", "cargo:rustc-cfg", <<"perf_pt_test">>)),
                      "emit_xdc"))
     ELSE Set(p, Goto(t, "emit_xdc"))
  /\ UNCHANGED fs

\* main: `println!("cargo:rustc-link-lib=static=xdc")`.
EmitLinkXdc(p) ==
  LET s == proc[p] IN
  /\ s.pc = "emit_xdc"
  /\ Set(p, Goto(Log(s, Ev("stdout", "cargo:rustc-link-lib", <<"static", "xdc">>)),
                 "emit_capstone"))
  /\ UNCHANGED fs

\* main: `println!("cargo:rustc-link-lib=static=capstone")`.
EmitLinkCapstone(p) ==
  LET s == proc[p] IN
  /\ s.pc = "emit_capstone"
  /\ Set(p, Goto(Log(s, Ev("stdout", "cargo:rustc-link-lib", <<"static", "capstone">>)),
                 "final_include"))
  /\ UNCHANGED fs

\* src/util handed to cc as a source file.
FinalInclude_AsFile(p) ==
  LET s == proc[p] IN
  /\ s.pc = "final_include"
  /\ Set(p, Goto([s EXCEPT !.files = Append(@, "src/util")], "compile"))
  /\ UNCHANGED fs

\* main: `c_build.include("src/util")`, an include path and no source file.
FinalInclude(p) ==
  LET s == proc[p] IN
  /\ s.pc = "final_include"
  /\ Set(p, Goto([s EXCEPT !.includes = Append(@, <<"src", "util">>)], "compile"))
  /\ UNCHANGED fs

\* main: `c_build.compile("hwtracer_c")`: cc compiles the files added so far
\* into libhwtracer_c.a, and panics when the compiler or the archiver fails.
Compile(p) ==
  LET s == proc[p] IN
  /\ s.pc = "compile"
  /\ \/ Set(p, Goto([Log(s, Ev("cc", "compile", <<"hwtracer_c", "Ok">>))
                       EXCEPT !.objects = s.files],
                    "rerun"))
     \/ Set(p, Panic(Log(s, Ev("cc", "compile", <<"hwtracer_c", "Err">>)),
                     "cc compile"))
  /\ UNCHANGED fs

\* main: `rerun_except(&[..]).unwrap()`, then main returns.
RerunExcept(p) ==
  LET s == proc[p] IN
  /\ s.pc = "rerun"
  /\ \/ Set(p, Goto(Log(s, Ev("stdout", "cargo:rerun-if-changed", RerunExceptions)),
                    "done"))
     \/ Set(p, Panic(s, "unwrap rerun_except"))
  /\ UNCHANGED fs

\* The process is gone: nothing of it is left but what it did to the file
\* system.
Exit(p) ==
  /\ proc[p].pc \in {"done", "failed"}
  /\ Set(p, IdleProc)
  /\ UNCHANGED fs

\* Cargo runs one build script per output directory at a time.
Alone(p) == \A q \in Procs \ {p} : proc[q].pc = "idle"

Next ==
  \E p \in Procs :
    \/ Alone(p) /\ Start(p)
    \/ MkOutDir(p)
    \/ MkExists(p)
    \/ MkCreateDir(p)
    \/ MkSymlink(p)
    \/ Gate(p)
    \/ FeatureCheck(p)
    \/ AddBackendFiles(p)
    \/ BlEnter(p)
    \/ BlChdir(p)
    \/ BlMake(p)
    \/ BlStatus(p)
    \/ BlRestore(p)
    \/ AddIncludeFlag(p)
    \/ EmitLinkSearch(p)
    \/ EmitCfgPerfPt(p)
    \/ CpuSupportsPt(p)
    \/ PtBranch(p)
    \/ EmitLinkXdc(p)
    \/ EmitLinkCapstone(p)
    \/ FinalInclude(p)
    \/ Compile(p)
    \/ RerunExcept(p)
    \/ Exit(p)

Spec == Init /\ [][Next]_vars

\* Two runs against one output directory with nothing to keep them apart:
\* the script takes no lock, so a second process may start while the first is
\* anywhere in it.  The processor either has Processor Trace or has not.
SharedOutDir == {"out1"}
OneProcessor == {[NoRegs EXCEPT !.ebx = {PtBit}], NoRegs}

NextConcurrent ==
  \E p \in Procs :
    \/ StartWith(p, TargetOses, {"x86_64"}, SharedOutDir)
    \/ MkOutDir(p)
    \/ MkExists(p)
    \/ MkCreateDir(p)
    \/ MkSymlink(p)
    \/ Gate(p)
    \/ FeatureCheck(p)
    \/ AddBackendFiles(p)
    \/ BlEnter(p)
    \/ BlChdir(p)
    \/ BlMake(p)
    \/ BlStatus(p)
    \/ BlRestore(p)
    \/ AddIncludeFlag(p)
    \/ EmitLinkSearch(p)
    \/ EmitCfgPerfPt(p)
    \/ CpuSupportsPtOn(p, OneProcessor)
    \/ PtBranch(p)
    \/ EmitLinkXdc(p)
    \/ EmitLinkCapstone(p)
    \/ FinalInclude(p)
    \/ Compile(p)
    \/ RerunExcept(p)
    \/ Exit(p)

SpecConcurrent == Init /\ [][NextConcurrent]_vars

\* ------------------------------------------------- reading a process's log

Has(s, kind, key) == \E i \in DOMAIN s.log : s.log[i].kind = kind /\ s.log[i].key = key
HasKind(s, kind) == \E i \in DOMAIN s.log : s.log[i].kind = kind
HasEv(s, e) == \E i \in DOMAIN s.log : s.log[i] = e
Count(s, e) == Cardinality({i \in DOMAIN s.log : s.log[i] = e})
CountKey(s, kind, key) ==
  Cardinality({i \in DOMAIN s.log : s.log[i].kind = kind /\ s.log[i].key = key})
Range(seq) == {seq[i] : i \in DOMAIN seq}

\* The lines that tell cargo how to link and configure the crate.
BackendKeys == {"cargo:rustc-link-search", "cargo:rustc-link-lib", "cargo:rustc-cfg"}
IsDirective(e) == e.kind = "stdout" /\ e.key \in BackendKeys
HasDirective(s) == \E i \in DOMAIN s.log : IsDirective(s.log[i])

LinkSearch(s) == Ev("stdout", "cargo:rustc-link-search", s.c_deps_dir \o <<"inst", "lib">>)
CfgPerfPt == Ev("stdout", "cargo:rustc-cfg", <<"perf_pt">>)
CfgPerfPtTest == Ev("stdout", "cargo:rustc-cfg", <<"perf_pt_test">>)
LinkXdc == Ev("stdout", "cargo:rustc-link-lib", <<"static", "xdc">>)
LinkCapstone == Ev("stdout", "cargo:rustc-link-lib", <<"static", "capstone">>)
ProbeEv(r) == Ev("cc", "try_compile", <<FEATURE_CHECKS_PATH, "check_perf_pt.c", r>>)
CompileEv(r) == Ev("cc", "compile", <<"hwtracer_c", r>>)
EchoStdout == Ev("stderr", "stdout: ", <<"res.stdout">>)
EchoStderr == Ev("stderr", "stderr: ", <<"res.stderr">>)

InBuildLibxdc == {"bl_enter", "bl_chdir", "bl_make", "bl_status", "bl_restore"}

\* ------------------------------------------------------------------ claims

\* C1: build_libxdc leaves the working directory as it found it on every
\* exit path: once a process has entered build_libxdc and is no longer in it
\* (it returned, or it panicked on a failed or unspawnable make), its working
\* directory is the one it had on entry, the package root.
C1_WorkingDirRestoredOnEveryExit ==
  \A p \in Procs :
    LET s == proc[p] IN
    (Has(s, "stderr", "Building libxdc...") /\ s.pc \notin InBuildLibxdc)
      => s.cwd = CrateDir

\* C2: once make has ended with a nonzero status, the run never compiles
\* hwtracer_c and never registers the rebuild triggers; the only place it can
\* go is the failed state, and it is there only after both captured streams
\* were echoed, the standard output before the standard error.
C2_MakeFailureIsFatal ==
  \A p \in Procs :
    LET s == proc[p] IN
    Has(s, "make", "nonzero") =>
      /\ s.pc \in {"bl_status", "failed"}
      /\ ~Has(s, "cc", "compile")
      /\ ~Has(s, "stdout", "cargo:rerun-if-changed")
      /\ s.pc = "failed" =>
           \E i, j \in DOMAIN s.log :
             /\ i < j
             /\ s.log[i] = EchoStdout
             /\ s.log[j] = EchoStderr
             /\ s.log[Len(s.log)].kind = "panic"

C2_Witness ==
  \E p \in Procs : proc[p].pc = "failed" /\ Has(proc[p], "make", "nonzero")

\* C3: a run for a target that is not linux on x86_64 adds no source file,
\* prints no link-search, link-lib or cfg line, runs neither the probe nor
\* make, never queries CPUID, and what its final compile archives is the
\* library without any backend object.
C3_UnsupportedTargetBuildsBaseOnly ==
  \A p \in Procs :
    LET s == proc[p] IN
    (s.pc # "idle" /\ ~(s.target.os = "linux" /\ s.target.arch = "x86_64")) =>
      /\ s.files = <<>>
      /\ ~HasDirective(s)
      /\ ~HasKind(s, "make")
      /\ ~HasKind(s, "cpuid")
      /\ ~Has(s, "cc", "try_compile")
      /\ s.pc \in {"rerun", "done"} => (Count(s, CompileEv("Ok")) = 1 /\ s.objects = <<>>)

C3_Witness ==
  \E p \in Procs :
    /\ proc[p].pc = "done"
    /\ proc[p].target = [os |-> "linux", arch |-> "aarch64"]

\* A run that ended well with the backend enabled.
BackendRunDone(s) ==
  /\ s.pc = "done"
  /\ s.target = [os |-> "linux", arch |-> "x86_64"]
  /\ HasEv(s, ProbeEv("Ok"))

EachDirectiveOnce(s) ==
  /\ Count(s, LinkSearch(s)) = 1
  /\ Count(s, LinkXdc) = 1
  /\ Count(s, LinkCapstone) = 1
  /\ Count(s, CfgPerfPt) = 1
  /\ CountKey(s, "stdout", "cargo:rustc-link-search") = 1
  /\ CountKey(s, "stdout", "cargo:rustc-link-lib") = 2

\* C4 as stated: a successful backend run compiles four source files, the
\* three of the backend and a base file, and prints each directive once.
C4_ThreeBackendFilesPlusBaseFile ==
  \A p \in Procs :
    LET s == proc[p] IN
    BackendRunDone(s) =>
      /\ Len(s.objects) = 4
      /\ Range(BackendSources) \subseteq Range(s.objects)
      /\ EachDirectiveOnce(s)

\* C4, amended: a successful backend run compiles exactly the three source
\* files of the backend, src/util being an include path of that compile and
\* no source file, and prints the link-search line, the two link-lib lines
\* and the perf_pt cfg line exactly once each.
C4_ExactlyThreeBackendFiles ==
  \A p \in Procs :
    LET s == proc[p] IN
    BackendRunDone(s) =>
      /\ s.objects = BackendSources
      /\ <<"src", "util">> \in Range(s.includes)
      /\ EachDirectiveOnce(s)

C4_Witness == \E p \in Procs : BackendRunDone(proc[p])

\* C5: a call of make_c_deps_dir that finds the directory (as every call after
\* a successful one does) returns at once and with success, changing nothing
\* on the file system; directory and link are created only where they were
\* absent; and every call that returns, returns OUT_DIR/c_deps.
C5_EnsureIsIdempotent ==
  [][\A p \in Procs :
       LET s == proc[p]
           t == proc'[p]
       IN
       /\ (s.pc = "mk_exists" /\ t # s /\ fs[s.outDir].dir) =>
            (t.pc = "gate" /\ fs' = fs /\ t.log = s.log)
       /\ (s.pc \in {"mk_exists", "mk_symlink"} /\ t.pc = "gate") =>
            t.c_deps_dir = <<s.outDir, C_DEPS_DIR>>
       /\ (t # s /\ fs' # fs) =>
            /\ s.pc \in {"mk_create_dir", "mk_symlink"}
            /\ \A o \in OutDirs :
                 /\ fs[o].dir => fs'[o].dir
                 /\ fs[o].link => fs'[o].link
                 /\ fs'[o] # fs[o] => o = s.outDir
     ]_vars

C5_Witness ==
  \E p \in Procs :
    LET s == proc[p] IN
    /\ s.pc = "gate"
    /\ ~HasKind(s, "fs")
    /\ fs[s.outDir].dir
    /\ fs[s.outDir].link

\* C6: the probe never ends the run.  When its compile fails on linux/x86_64
\* the run has no backend source, no make, no directive and no CPUID query,
\* and goes on to the final compile (it can fail only there or later); when
\* its compile succeeds the run takes the backend branch.
C6_ProbeNeverAborts ==
  \A p \in Procs :
    LET s == proc[p] IN
    /\ (s.log # <<>> /\ s.log[Len(s.log)].key = "try_compile") => s.pc # "failed"
    /\ HasEv(s, ProbeEv("Err")) =>
         /\ s.files = <<>>
         /\ ~HasKind(s, "make")
         /\ ~HasDirective(s)
         /\ ~HasKind(s, "cpuid")
         /\ s.pc \in {"final_include", "compile", "rerun", "done", "failed"}
         /\ s.pc = "failed" => Has(s, "cc", "compile")
         /\ s.pc = "done" => HasEv(s, CompileEv("Ok"))
    /\ HasEv(s, ProbeEv("Ok")) =>
         (s.pc = "add_files" \/ s.files = BackendSources)

C6_Witness ==
  \E p \in Procs : proc[p].pc = "done" /\ HasEv(proc[p], ProbeEv("Err"))

\* C7: no run compiles hwtracer_c twice, and every run that got past step 4
\* without a fatal failure (it is at or after the registration of the rebuild
\* triggers, or it failed in the compile or in the registration) has run the
\* final compile exactly once, whatever the gate and the probe said.
C7_FinalCompileExactlyOnce ==
  \A p \in Procs :
    LET s == proc[p]
        n == CountKey(s, "cc", "compile")
    IN
    /\ n <= 1
    /\ s.pc \in {"rerun", "done"} => (n = 1 /\ HasEv(s, CompileEv("Ok")))
    /\ (s.pc = "failed" /\ s.log[Len(s.log)].key \in {"cc compile", "unwrap rerun_except"})
         => n = 1

C7_Witness ==
  \E p \in Procs :
    LET s == proc[p] IN
    /\ s.pc = "rerun"
    /\ s.target = [os |-> "linux", arch |-> "x86_64"]
    /\ HasEv(s, ProbeEv("Err"))
    /\ CountKey(s, "cc", "compile") = 1

\* C8: when make cannot be spawned the run is failed at once, the panic
\* message being the next thing after the attempt; nothing of a captured
\* stream is echoed, no line is printed on the standard output, and neither
\* the final compile nor the registration of the rebuild triggers runs.
C8_SpawnFailureIsFatal ==
  \A p \in Procs :
    LET s == proc[p] IN
    Has(s, "make", "spawn_failed") =>
      /\ s.pc = "failed"
      /\ s.log[Len(s.log)] = Ev("panic", "Fatal error when building libxdc", <<>>)
      /\ s.log[Len(s.log) - 1].key = "spawn_failed"
      /\ ~HasEv(s, EchoStdout)
      /\ ~HasEv(s, EchoStderr)
      /\ ~HasKind(s, "stdout")
      /\ ~Has(s, "cc", "compile")

C8_Witness == \E p \in Procs : Has(proc[p], "make", "spawn_failed")

\* C9: cpu_supports_pt answers true exactly when bit 25 of EBX is 1, whatever
\* the other bits of EBX and whatever EAX, ECX and EDX hold.
C9_PtBitDecides ==
  \A p \in Procs :
    LET s == proc[p] IN
    s.pc = "pt_branch" => (s.supports_pt <=> PtBit \in s.cpuid.ebx)

C9_Witness ==
  \E p \in Procs :
    LET s == proc[p] IN
    /\ s.pc = "pt_branch"
    /\ ~s.supports_pt
    /\ s.cpuid.ebx = AllOnes \ {PtBit}
    /\ s.cpuid.ecx = AllOnes
    /\ s.cpuid.edx = {PtBit}

\* C10 as stated: no directive is printed before the final compile has
\* completed, and a run that aborted has printed none.
C10_DirectivesOnlyAfterFinalCompile ==
  \A p \in Procs :
    LET s == proc[p] IN
    /\ \A i \in DOMAIN s.log :
         IsDirective(s.log[i]) => \E j \in 1 .. (i - 1) : s.log[j] = CompileEv("Ok")
    /\ s.pc = "failed" => ~HasDirective(s)

\* C10, amended: directives are printed as step 4 produces them, each before
\* the final compile starts.  A run that aborts in steps 1-4 has printed no
\* directive; a run of the backend branch that aborts in the final compile
\* has already printed the link-search, perf_pt and both link-lib lines.
C10_DirectivesPrintedBeforeFinalCompile ==
  \A p \in Procs :
    LET s == proc[p] IN
    /\ \A i, j \in DOMAIN s.log :
         (IsDirective(s.log[i]) /\ s.log[j].kind = "cc" /\ s.log[j].key = "compile")
           => i < j
    /\ (s.pc = "failed" /\ ~Has(s, "cc", "compile")) => ~HasDirective(s)
    /\ (HasEv(s, CompileEv("Err")) /\ s.files # <<>>) =>
         /\ s.pc = "failed"
         /\ HasEv(s, LinkSearch(s))
         /\ HasEv(s, CfgPerfPt)
         /\ HasEv(s, LinkXdc)
         /\ HasEv(s, LinkCapstone)

C10_Witness ==
  \E p \in Procs :
    LET s == proc[p] IN
    /\ s.pc = "failed"
    /\ HasEv(s, CompileEv("Err"))
    /\ HasEv(s, LinkSearch(s))

\* ------------------------------------------------------ the order of a run

IsProbe(e) == e.kind = "cc" /\ e.key = "try_compile"
IsMake(e) == e.kind = "make"
IsCpuid(e) == e.kind = "cpuid"
IsCompile(e) == e.kind = "cc" /\ e.key = "compile"
IsQuery(e) == IsProbe(e) \/ IsCpuid(e)

\* Every event of the first sort in the log comes before every event of the
\* second sort.
AllBefore(s, A(_), B(_)) ==
  \A i, j \in DOMAIN s.log : (A(s.log[i]) /\ B(s.log[j])) => i < j

\* The event e is in the log before position j.
Earlier(s, e, j) == \E i \in 1 .. (j - 1) : s.log[i] = e

\* C11 as stated: make ends before any probe or CPUID query, every probe and
\* CPUID query ends before the first directive, every directive is printed
\* before the final compile.
C11_BuilderThenQueriesThenDirectives ==
  \A p \in Procs :
    LET s == proc[p] IN
    /\ AllBefore(s, IsMake, IsQuery)
    /\ AllBefore(s, IsQuery, IsDirective)
    /\ AllBefore(s, IsDirective, IsCompile)

\* C11, amended: the order is probe, make, the link-search and perf_pt lines,
\* the CPUID query, the perf_pt_test line if any, the two link-lib lines, the
\* final compile.  The probe ends before make starts, make has ended with
\* success before any directive, the CPUID query comes after the link-search
\* and perf_pt lines and before the perf_pt_test and link-lib lines, and every
\* directive is printed before the final compile.
C11_ProbeBuilderDirectivesCompile ==
  \A p \in Procs :
    LET s == proc[p] IN
    /\ AllBefore(s, IsProbe, IsMake)
    /\ AllBefore(s, IsMake, IsDirective)
    /\ AllBefore(s, IsMake, IsCpuid)
    /\ AllBefore(s, IsDirective, IsCompile)
    /\ \A j \in DOMAIN s.log :
         /\ IsMake(s.log[j]) => Earlier(s, ProbeEv("Ok"), j)
         /\ IsCpuid(s.log[j]) =>
              /\ Earlier(s, LinkSearch(s), j)
              /\ Earlier(s, CfgPerfPt, j)
              /\ ~Earlier(s, CfgPerfPtTest, j)
              /\ ~Earlier(s, LinkXdc, j)
              /\ ~Earlier(s, LinkCapstone, j)
         /\ s.log[j] \in {CfgPerfPtTest, LinkXdc, LinkCapstone} =>
              \E i \in 1 .. (j - 1) : IsCpuid(s.log[i])

C11_Witness ==
  \E p \in Procs :
    LET s == proc[p] IN
    /\ s.pc = "done"
    /\ HasEv(s, CfgPerfPtTest)
    /\ HasEv(s, CompileEv("Ok"))

\* The places of the script in the order of its text; "failed" is last, so
\* that nothing follows it.
PcOrder ==
  <<"idle", "mk_out_dir", "mk_exists", "mk_create_dir", "mk_symlink", "gate", "probe",
    "add_files", "bl_enter", "bl_chdir", "bl_make", "bl_status", "bl_restore",
    "add_include", "emit_link_search", "emit_perf_pt", "cpuid", "pt_branch",
    "emit_xdc", "emit_capstone", "final_include", "compile", "rerun", "done", "failed">>
Rank(pc) == CHOOSE i \in DOMAIN PcOrder : PcOrder[i] = pc

IsRerun(e) == e.kind = "stdout" /\ e.key = "cargo:rerun-if-changed"
IsCreateDir(e) == e.kind = "fs" /\ e.key = "create_dir"
IsSymlink(e) == e.kind = "fs" /\ e.key = "symlink"
AtMostOnce(s, A(_)) == Cardinality({i \in DOMAIN s.log : A(s.log[i])}) <= 1

\* C12: a run only moves forward through the script and never comes back to
\* a place it has left; a process that is done or has failed takes no step
\* but its exit.  The creation of the workspace, the probe, make, the final
\* compile and the registration of the rebuild triggers each happen at most
\* once, in that order, and the triggers are registered only after a final
\* compile that succeeded.
C12_SingleLinearPass ==
  [][\A p \in Procs :
       LET s == proc[p]
           t == proc'[p]
       IN
       t # s =>
         /\ s.pc \in {"done", "failed"} <=> t = IdleProc
         /\ t.pc # "idle" => Rank(t.pc) > Rank(s.pc)
         /\ AtMostOnce(t, IsCreateDir)
         /\ AtMostOnce(t, IsSymlink)
         /\ AtMostOnce(t, IsProbe)
         /\ AtMostOnce(t, IsMake)
         /\ AtMostOnce(t, IsCompile)
         /\ AtMostOnce(t, IsRerun)
         /\ AllBefore(t, IsCreateDir, IsSymlink)
         /\ AllBefore(t, IsSymlink, IsProbe)
         /\ AllBefore(t, IsProbe, IsMake)
         /\ AllBefore(t, IsMake, IsCompile)
         /\ AllBefore(t, IsCompile, IsRerun)
         /\ \A j \in DOMAIN t.log : IsRerun(t.log[j]) => Earlier(t, CompileEv("Ok"), j)
     ]_vars

C12_Witness ==
  \E p \in Procs :
    LET s == proc[p] IN
    /\ s.pc = "done"
    /\ Has(s, "fs", "symlink")
    /\ Has(s, "make", "success")
    /\ Has(s, "stdout", "cargo:rerun-if-changed")

\* What a run has done, the CPUID query, its answer and the perf_pt_test line
\* left out.
WithoutCpuid(s) ==
  [pc |-> s.pc, target |-> s.target, outDir |-> s.outDir, cwd |-> s.cwd,
   files |-> s.files, includes |-> s.includes, flags |-> s.flags,
   objects |-> s.objects,
   log |-> SelectSeq(s.log, LAMBDA e : ~IsCpuid(e) /\ e # CfgPerfPtTest)]

\* What a run of the backend branch that ended well has done, as the output
\* directory alone decides it (created: whether this run made the workspace).
BackendRun(o, created) ==
  LET dir == <<o, C_DEPS_DIR>> IN
  [pc |-> "done",
   target |-> [os |-> "linux", arch |-> "x86_64"],
   outDir |-> o,
   cwd |-> CrateDir,
   files |-> BackendSources,
   includes |-> <<dir \o <<"inst", "include">>, <<"src", "util">>>>,
   flags |-> << <<"-L">> \o dir \o <<"inst", "lib">> >>,
   objects |-> BackendSources,
   log |-> (IF created
            THEN <<Ev("fs", "create_dir", dir),
                   Ev("fs", "symlink",
                      CrateDir \o <<C_DEPS_MAKEFILE>> \o dir \o <<C_DEPS_MAKEFILE>>)>>
            ELSE <<>>)
           \o <<ProbeEv("Ok"),
                Ev("stderr", "Building libxdc...", <<>>),
                Ev("make", "success", dir),
                Ev("stdout", "cargo:rustc-link-search", dir \o <<"inst", "lib">>),
                CfgPerfPt, LinkXdc, LinkCapstone,
                CompileEv("Ok"),
                Ev("stdout", "cargo:rerun-if-changed", RerunExceptions)>>]

\* C13: the perf_pt_test line is printed only after the perf_pt line and only
\* when the CPUID query answered true.  Apart from that line, a run of the
\* backend branch that ends well is the same whatever the query answered:
\* the sources compiled, the one run of make in the workspace and the
\* link-search, perf_pt and link-lib lines are those the output directory
\* decides.
C13_CpuidDecidesOnlyTheTestFlag ==
  \A p \in Procs :
    LET s == proc[p] IN
    /\ \A j \in DOMAIN s.log :
         s.log[j] = CfgPerfPtTest =>
           /\ Earlier(s, CfgPerfPt, j)
           /\ IsCpuid(s.log[j - 1])
           /\ s.supports_pt
    /\ (s.pc \in {"emit_xdc", "emit_capstone", "final_include", "compile", "rerun", "done"}
          /\ HasKind(s, "cpuid"))
         => (s.supports_pt <=> HasEv(s, CfgPerfPtTest))
    /\ BackendRunDone(s) =>
         WithoutCpuid(s) = BackendRun(s.outDir, HasKind(s, "fs"))

C13_Witness ==
  \E p \in Procs :
    LET s == proc[p] IN
    /\ BackendRunDone(s)
    /\ ~s.supports_pt
    /\ ~HasEv(s, CfgPerfPtTest)

\* C14: a create_dir or a symlink that fails ends the run on the spot: the
\* step that leaves the file system as it was takes the process to "failed"
\* with nothing but the panic added to its log; up to there the run has
\* probed nothing, run no make, printed nothing and compiled nothing, and
\* from "failed" the process can only exit.
C14_WorkspaceFailureIsFatal ==
  [][\A p \in Procs :
       LET s == proc[p]
           t == proc'[p]
       IN
       /\ (s.pc \in {"mk_create_dir", "mk_symlink"} /\ t # s /\ fs' = fs) =>
            /\ t.pc = "failed"
            /\ t.log = Append(s.log, Ev("panic",
                                        IF s.pc = "mk_create_dir"
                                        THEN "unwrap create_dir"
                                        ELSE "unwrap symlink",
                                        <<>>))
            /\ ~HasKind(t, "cc")
            /\ ~HasKind(t, "make")
            /\ ~HasKind(t, "stdout")
            /\ ~HasKind(t, "cpuid")
       /\ (s.pc = "failed" /\ t # s) => t = IdleProc
     ]_vars

C14_Witness ==
  \E p \in Procs :
    LET s == proc[p] IN
    /\ s.pc = "failed"
    /\ s.log[Len(s.log)] = Ev("panic", "unwrap symlink", <<>>)
    /\ fs[s.outDir].dir
    /\ ~fs[s.outDir].link

\* No run is under way.
BetweenRuns == \A p \in Procs : proc[p].pc = "idle"

\* C16 as stated: whenever make has been invoked the workspace holds the link
\* to the make file, and between runs a workspace directory that exists holds
\* the link.
C16_WorkspaceAlwaysHoldsLink ==
  /\ \A p \in Procs :
       LET s == proc[p] IN
       HasKind(s, "make") => fs[s.outDir].link
  /\ BetweenRuns => \A o \in OutDirs : fs[o].dir => fs[o].link

\* C16, amended: a link exists only in a directory that exists, and whenever
\* make has ended with success the workspace holds the link.  The directory
\* can exist without the link: a run that fails between create_dir and symlink
\* leaves it so, and a later run takes the directory for the workspace and
\* invokes make in it; such a run has created nothing itself and its make
\* does not succeed.
C16_LinkOnlyWhereMakeSucceeds ==
  /\ \A o \in OutDirs : fs[o].link => fs[o].dir
  /\ \A p \in Procs :
       LET s == proc[p] IN
       /\ Has(s, "make", "success") => fs[s.outDir].link
       /\ (HasKind(s, "make") /\ ~fs[s.outDir].link) =>
            /\ fs[s.outDir].dir
            /\ ~HasKind(s, "fs")
            /\ s.pc \in {"bl_status", "failed"}

C16_Witness ==
  \E p \in Procs :
    LET s == proc[p] IN
    /\ Has(s, "make", "nonzero")
    /\ fs[s.outDir].dir
    /\ ~fs[s.outDir].link

\* C17: every link-search, link-lib and cfg line of a run comes after a make
\* of the same run that ended with success, and a run whose make failed or
\* could not be spawned has printed none of them.
C17_DirectivesOnlyAfterMakeSuccess ==
  \A p \in Procs :
    LET s == proc[p] IN
    /\ \A j \in DOMAIN s.log :
         IsDirective(s.log[j]) => Earlier(s, Ev("make", "success", s.c_deps_dir), j)
    /\ (Has(s, "make", "nonzero") \/ Has(s, "make", "spawn_failed")) => ~HasDirective(s)

C17_Witness ==
  \E p \in Procs :
    LET s == proc[p] IN
    /\ Has(s, "make", "success")
    /\ HasEv(s, LinkCapstone)
    /\ HasEv(s, CfgPerfPtTest)

\* A process is about to create what is there already: the directory, or the
\* link in it.  Its create_dir or symlink can then only fail.
Collides(p) ==
  LET s == proc[p] IN
  \/ s.pc = "mk_create_dir" /\ fs[s.outDir].dir
  \/ s.pc = "mk_symlink" /\ fs[s.outDir].link

\* C15: a run comes to create a directory or a link that exists only through
\* a step of another process that is, at that moment, itself creating the
\* workspace, while the first sits between its existence check and its own
\* creation: never by its own step, so never in runs that follow one another,
\* where the existence check has sent it past the creation.  A process in
\* that position can only abort, with the panic of create_dir or of symlink.
\* (C15_Witness is the reachable interleaving: both found the workspace
\* absent, one created it, the other is about to fail.)
C15_CollisionOnlyByOverlap ==
  [][\A p \in Procs :
       LET s == proc[p]
           t == proc'[p]
       IN
       /\ (~Collides(p) /\ Collides(p)') =>
            /\ t = s
            /\ \E q \in Procs \ {p} :
                 /\ proc'[q] # proc[q]
                 /\ proc[q].pc \in {"mk_create_dir", "mk_symlink"}
                 /\ proc[q].outDir = s.outDir
       /\ (Collides(p) /\ t # s) =>
            /\ t.pc = "failed"
            /\ t.log[Len(t.log)].key \in {"unwrap create_dir", "unwrap symlink"}
            /\ fs' = fs
     ]_vars

C15_Witness ==
  \E p, q \in Procs :
    /\ p # q
    /\ proc[p].pc = "mk_create_dir"
    /\ proc[p].outDir = proc[q].outDir
    /\ fs[proc[p].outDir].dir
    /\ ~HasKind(proc[p], "fs")
    /\ Has(proc[q], "fs", "create_dir")

====
